---- MODULE Spec2Model ----
(***************************************************************************)
(* Model of the roaring-landmask classifier (src/src/lib.rs).              *)
(*                                                                         *)
(* Coordinates are whole degrees.  RoaringLandmask composes a bitmap index *)
(* (RoaringMask, mask.rs) and a shoreline vector store (Gshhg, shapes.rs); *)
(* those two files are modelled from the specification, lib.rs from its    *)
(* code.                                                                   *)
(***************************************************************************)
EXTENDS Integers, Sequences, FiniteSets

VARIABLES
    dataset,     \* the embedded dataset the build compiled in
    classifier,  \* the RoaringLandmask instance, once new() has returned it
    loads,       \* loaders called by the last new(), in call order
    call,        \* the last operation and its arguments
    result,      \* what the last operation gave back
    evals,       \* components evaluated by the last contains(), in order
    normalized,  \* value modulate_longitude() returned; 0 after any other call
    par          \* the contains_many_par call in flight

vars == <<dataset, classifier, loads, call, result, evals, normalized, par>>

----------------------------------------------------------------------------
(* Bounds of the explored inputs *)

MaxK == 2         \* revolutions added to or taken from a base longitude
MaxLen == 2       \* longest coordinate array of a batch query
MaxWorkers == 2   \* worker threads of the parallel batch query

BaseLons == {-180, -100, 65, 170}
Lons == {b + 360 * k : b \in BaseLons, k \in -MaxK..MaxK}
Lats == {-95, -90, 45, 65, 90, 95}
BatchLons == {-100, 170}
BatchLats == {-95, 65}
Workers == 1..MaxWorkers

SeqsUpTo(S, n) == UNION {[1..m -> S] : m \in 0..n}
Min(a, b) == IF a <= b THEN a ELSE b

----------------------------------------------------------------------------
(* Longitude normalisation, lib.rs *)

\* Rust's % on f64 is fmod: the remainder of the truncated division, which
\* keeps the sign of the dividend.
Fmod(a, b) == IF a >= 0 THEN a % b ELSE -((-a) % b)

modulate_longitude(lon) == Fmod(lon + 180, 360) - 180

----------------------------------------------------------------------------
(* Grid transform and bitmap index *)

GridSpec == [lon0 |-> -180, lat0 |-> -90, dx |-> 30, dy |-> 30,
             ncols |-> 12, nrows |-> 6]

LatInRange(lat) == -90 <= lat /\ lat <= 90

\* to_cell: the column wraps modulo the column count, the row is clamped.
to_cell(lon, lat) ==
    LET nlon == modulate_longitude(lon)
        c == ((nlon - GridSpec.lon0) \div GridSpec.dx) % GridSpec.ncols
        r == (lat - GridSpec.lat0) \div GridSpec.dy
    IN  [col |-> c,
         row |-> IF r < 0 THEN 0
                 ELSE IF r >= GridSpec.nrows THEN GridSpec.nrows - 1 ELSE r]

\* RoaringMask::contains: a range error for a latitude off the globe, else
\* membership of the cell in the row's set.
RoaringMask_contains(mask, x, y) ==
    IF ~LatInRange(y)
    THEN [ok |-> FALSE, val |-> FALSE]
    ELSE LET cell == to_cell(x, y)
         IN  [ok |-> TRUE, val |-> <<cell.col, cell.row>> \in mask]

----------------------------------------------------------------------------
(* Shoreline vector store *)

Ring(w, e, s, n, outer) == [w |-> w, e |-> e, s |-> s, n |-> n, outer |-> outer]

InRing(p, x, y) == p.w <= x /\ x <= p.e /\ p.s <= y /\ y <= p.n

\* Gshhg::contains: longitude normalised, then the signed sum over the rings
\* that hold the point.
Gshhg_contains(shapes, x, y) ==
    LET nx == modulate_longitude(x)
        plus == {p \in shapes : p.outer /\ InRing(p, nx, y)}
        minus == {p \in shapes : ~p.outer /\ InRing(p, nx, y)}
    IN  [ok |-> TRUE, val |-> Cardinality(plus) > Cardinality(minus)]

----------------------------------------------------------------------------
(* The embedded dataset *)

\* Offline build: every cell whose footprint meets an outer ring.
Rasterize(shapes) ==
    {<<c, r>> \in (0..(GridSpec.ncols - 1)) \X (0..(GridSpec.nrows - 1)) :
        \E p \in shapes :
            /\ p.outer
            /\ p.w < GridSpec.lon0 + (c + 1) * GridSpec.dx
            /\ p.e >= GridSpec.lon0 + c * GridSpec.dx
            /\ p.s < GridSpec.lat0 + (r + 1) * GridSpec.dy
            /\ p.n >= GridSpec.lat0 + r * GridSpec.dy}

Coastlines ==
    { {Ring(0, 179, 30, 80, TRUE), Ring(60, 70, 40, 50, FALSE),
       Ring(-180, 179, -90, -70, TRUE)},
      {Ring(-170, -40, -50, 70, TRUE)},
      {} }

Datasets ==
    {[shapes |-> s, mask |-> Rasterize(s), maskValid |-> mv, shapesValid |-> sv] :
        s \in Coastlines, mv \in BOOLEAN, sv \in BOOLEAN}

\* RoaringMask::new and Gshhg::new: decode the artifact or fail.
RoaringMask_new(ds) == [ok |-> ds.maskValid, mask |-> ds.mask]
Gshhg_new(ds) == [ok |-> ds.shapesValid, shapes |-> ds.shapes]

----------------------------------------------------------------------------
(* RoaringLandmask, lib.rs *)

NoClassifier == [built |-> FALSE, hasMask |-> FALSE, hasShapes |-> FALSE,
                 mask |-> {}, shapes |-> {}]

\* new() that keeps going after a failed bitmap load.
RoaringLandmask_new_lenient(ds) ==
    LET m == RoaringMask_new(ds)
        s == Gshhg_new(ds)
    IN  IF ~s.ok
        THEN [ok |-> FALSE, loads |-> <<"RoaringMask::new", "Gshhg::new">>,
              obj |-> NoClassifier]
        ELSE [ok |-> TRUE, loads |-> <<"RoaringMask::new", "Gshhg::new">>,
              obj |-> [built |-> TRUE, hasMask |-> m.ok, hasShapes |-> TRUE,
                       mask |-> IF m.ok THEN m.mask ELSE {}, shapes |-> s.shapes]]

RoaringLandmask_new(ds) ==
    LET m == RoaringMask_new(ds)
    IN  IF ~m.ok
        THEN [ok |-> FALSE, loads |-> <<"RoaringMask::new">>, obj |-> NoClassifier]
        ELSE LET s == Gshhg_new(ds)
             IN  IF ~s.ok
                 THEN [ok |-> FALSE,
                       loads |-> <<"RoaringMask::new", "Gshhg::new">>,
                       obj |-> NoClassifier]
                 ELSE [ok |-> TRUE,
                       loads |-> <<"RoaringMask::new", "Gshhg::new">>,
                       obj |-> [built |-> TRUE, hasMask |-> TRUE,
                                hasShapes |-> TRUE,
                                mask |-> m.mask, shapes |-> s.shapes]]

\* contains() with || in place of &&.
RoaringLandmask_contains_or(c, x, y) ==
    LET m == RoaringMask_contains(c.mask, x, y)
    IN  IF ~m.ok THEN [ok |-> FALSE, val |-> FALSE, evals |-> <<"mask">>]
        ELSE IF m.val THEN [ok |-> TRUE, val |-> TRUE, evals |-> <<"mask">>]
        ELSE LET s == Gshhg_contains(c.shapes, x, y)
             IN  [ok |-> s.ok, val |-> s.val, evals |-> <<"mask", "shapes">>]

\* contains() with the eager & in place of &&.
RoaringLandmask_contains_eager(c, x, y) ==
    LET m == RoaringMask_contains(c.mask, x, y)
    IN  IF ~m.ok THEN [ok |-> FALSE, val |-> FALSE, evals |-> <<"mask">>]
        ELSE LET s == Gshhg_contains(c.shapes, x, y)
             IN  [ok |-> s.ok, val |-> m.val /\ s.val,
                  evals |-> <<"mask", "shapes">>]

\* contains() with the operands of && swapped.
RoaringLandmask_contains_swapped(c, x, y) ==
    LET s == Gshhg_contains(c.shapes, x, y)
    IN  IF ~s.val THEN [ok |-> TRUE, val |-> FALSE, evals |-> <<"shapes">>]
        ELSE LET m == RoaringMask_contains(c.mask, x, y)
             IN  [ok |-> m.ok, val |-> m.ok /\ m.val,
                  evals |-> <<"shapes", "mask">>]

\* self.mask.contains(x, y) && self.shapes.contains(x, y)
RoaringLandmask_contains(c, x, y) ==
    LET m == RoaringMask_contains(c.mask, x, y)
    IN  IF ~m.ok THEN [ok |-> FALSE, val |-> FALSE, evals |-> <<"mask">>]
        ELSE IF ~m.val THEN [ok |-> TRUE, val |-> FALSE, evals |-> <<"mask">>]
        ELSE LET s == Gshhg_contains(c.shapes, x, y)
             IN  [ok |-> s.ok, val |-> s.val, evals |-> <<"mask", "shapes">>]

\* contains_many() that collects the zipped results back to front.
contains_many_reversed(c, xs, ys) ==
    LET n == Min(Len(xs), Len(ys))
        each == [i \in 1..n |-> RoaringLandmask_contains(c, xs[i], ys[i])]
    IN  IF \E i \in 1..n : ~each[i].ok
        THEN [status |-> "RangeError", out |-> <<>>]
        ELSE [status |-> "ok", out |-> [i \in 1..n |-> each[n + 1 - i].val]]

\* x.iter().zip(y.iter()).map(contains): zip stops at the shorter array, and
\* a panic in any element unwinds the whole call.
contains_many(c, xs, ys) ==
    LET n == Min(Len(xs), Len(ys))
        each == [i \in 1..n |-> RoaringLandmask_contains(c, xs[i], ys[i])]
    IN  IF \E i \in 1..n : ~each[i].ok
        THEN [status |-> "RangeError", out |-> <<>>]
        ELSE [status |-> "ok", out |-> [i \in 1..n |-> each[i].val]]

----------------------------------------------------------------------------
(* State machine *)

NoCall == [op |-> "none", xs |-> <<>>, ys |-> <<>>]
NoResult == [status |-> "none", out |-> <<>>]
NoPar == [active |-> FALSE, xs |-> <<>>, ys |-> <<>>, out |-> <<>>,
          writes |-> <<>>, writer |-> <<>>, panicked |-> FALSE]

Init ==
    /\ dataset \in Datasets
    /\ classifier = NoClassifier
    /\ loads = <<>>
    /\ call = NoCall
    /\ result = NoResult
    /\ evals = <<>>
    /\ normalized = 0
    /\ par = NoPar

\* RoaringLandmask::new()
New ==
    /\ ~par.active
    /\ LET r == RoaringLandmask_new(dataset)
       IN  /\ classifier' = r.obj
           /\ loads' = r.loads
           /\ result' = [status |-> IF r.ok THEN "ok" ELSE "DataError",
                         out |-> <<>>]
    /\ call' = [op |-> "new", xs |-> <<>>, ys |-> <<>>]
    /\ evals' = <<>>
    /\ normalized' = 0
    /\ UNCHANGED <<dataset, par>>

\* modulate_longitude(lon)
Modulate(lon) ==
    /\ ~par.active
    /\ normalized' = modulate_longitude(lon)
    /\ call' = [op |-> "modulate_longitude", xs |-> <<lon>>, ys |-> <<>>]
    /\ result' = [status |-> "ok", out |-> <<>>]
    /\ evals' = <<>>
    /\ UNCHANGED <<dataset, classifier, loads, par>>

\* RoaringLandmask::contains(x, y)
Contains(x, y) ==
    /\ classifier.built
    /\ ~par.active
    /\ LET r == RoaringLandmask_contains(classifier, x, y)
       IN  /\ result' = IF r.ok THEN [status |-> "ok", out |-> <<r.val>>]
                        ELSE [status |-> "RangeError", out |-> <<>>]
           /\ evals' = r.evals
    /\ call' = [op |-> "contains", xs |-> <<x>>, ys |-> <<y>>]
    /\ normalized' = 0
    /\ UNCHANGED <<dataset, classifier, loads, par>>

\* RoaringLandmask::contains_many(x, y)
ContainsMany(xs, ys) ==
    /\ classifier.built
    /\ ~par.active
    /\ result' = contains_many(classifier, xs, ys)
    /\ call' = [op |-> "contains_many", xs |-> xs, ys |-> ys]
    /\ evals' = <<>>
    /\ normalized' = 0
    /\ UNCHANGED <<dataset, classifier, loads, par>>

\* RoaringLandmask::contains_many_par(x, y): Zip::from(&x).and(&y) panics on
\* arrays of different shape; otherwise the elements are handed to workers.
ParStart(xs, ys) ==
    /\ classifier.built
    /\ ~par.active
    /\ call' = [op |-> "contains_many_par", xs |-> xs, ys |-> ys]
    /\ evals' = <<>>
    /\ IF Len(xs) # Len(ys)
       THEN /\ result' = [status |-> "ShapeMismatch", out |-> <<>>]
            /\ par' = NoPar
       ELSE /\ result' = [status |-> "running", out |-> <<>>]
            /\ par' = [active |-> TRUE, xs |-> xs, ys |-> ys,
                       out |-> [i \in 1..Len(xs) |-> FALSE],
                       writes |-> [i \in 1..Len(xs) |-> 0],
                       writer |-> [i \in 1..Len(xs) |-> 0],
                       panicked |-> FALSE]
    /\ normalized' = 0
    /\ UNCHANGED <<dataset, classifier, loads>>

\* One worker evaluates one element nobody has evaluated yet and writes its
\* output slot; a panic in the closure is kept for the join.
ParWorker(w) ==
    /\ par.active
    /\ \E i \in 1..Len(par.xs) :
        /\ par.writes[i] = 0
        /\ par.writer[i] = 0
        /\ LET r == RoaringLandmask_contains(classifier, par.xs[i], par.ys[i])
           IN  par' = IF r.ok
                      THEN [par EXCEPT !.out[i] = r.val,
                                       !.writes[i] = @ + 1,
                                       !.writer[i] = w]
                      ELSE [par EXCEPT !.panicked = TRUE, !.writer[i] = w]
    /\ UNCHANGED <<dataset, classifier, loads, call, result, evals, normalized>>

\* The join: the collected array, or the panic of a worker resumed.
ParFinish ==
    /\ par.active
    /\ \/ par.panicked
       \/ \A i \in 1..Len(par.xs) : par.writes[i] > 0
    /\ result' = IF par.panicked
                 THEN [status |-> "RangeError", out |-> <<>>]
                 ELSE [status |-> "ok", out |-> par.out]
    /\ par' = NoPar
    /\ UNCHANGED <<dataset, classifier, loads, call, evals, normalized>>

Next ==
    \/ New
    \/ \E lon \in Lons : Modulate(lon)
    \/ \E x \in Lons, y \in Lats : Contains(x, y)
    \/ \E xs \in SeqsUpTo(BatchLons, MaxLen), ys \in SeqsUpTo(BatchLats, MaxLen) :
           ContainsMany(xs, ys)
    \/ \E xs \in SeqsUpTo(BatchLons, MaxLen), ys \in SeqsUpTo(BatchLats, MaxLen) :
           ParStart(xs, ys)
    \/ \E w \in Workers : ParWorker(w)
    \/ ParFinish

Spec == Init /\ [][Next]_vars

----------------------------------------------------------------------------
(* Properties *)

Queries == {"contains", "contains_many", "contains_many_par"}

\* What contains(x, y) hands back for an evaluation r of it.
Returned(r) ==
    IF r.ok THEN [status |-> "ok", out |-> <<r.val>>]
    ELSE [status |-> "RangeError", out |-> <<>>]

\* C1: contains(lon, lat) gives the same answer as contains(lon + 360k, lat)
\* for every integer k, negative k included.
LongitudePeriodicity ==
    call.op = "contains" =>
        \A k \in -MaxK..MaxK :
            result = Returned(RoaringLandmask_contains(
                         classifier, call.xs[1] + 360 * k, call.ys[1]))

\* C2: modulate_longitude returns a value r with -180 <= r < 180 that differs
\* from its argument by a whole number of revolutions.
ModulateIsCanonical ==
    call.op = "modulate_longitude" =>
        /\ -180 <= normalized
        /\ normalized < 180
        /\ (normalized - call.xs[1]) % 360 = 0

\* C3: for a latitude in [-90, 90], contains is false when the bitmap index
\* says false and is the vector store's answer when the bitmap index says true.
ShortCircuitValue ==
    (call.op = "contains" /\ LatInRange(call.ys[1])) =>
        LET m == RoaringMask_contains(classifier.mask, call.xs[1], call.ys[1])
            s == Gshhg_contains(classifier.shapes, call.xs[1], call.ys[1])
        IN  /\ result.status = "ok"
            /\ ~m.val => result.out = <<FALSE>>
            /\ m.val => result.out = <<s.val>>

ShortCircuitValueWitness ==
    /\ call.op = "contains"
    /\ LatInRange(call.ys[1])
    /\ RoaringMask_contains(classifier.mask, call.xs[1], call.ys[1]).val
    /\ ~Gshhg_contains(classifier.shapes, call.xs[1], call.ys[1]).val
    /\ result = [status |-> "ok", out |-> <<FALSE>>]

\* C4: with |lat| > 90, contains fails with a range error for every longitude
\* and every dataset, returns no boolean, and never reaches the vector store.
LatitudeOffGlobeFails ==
    (call.op = "contains" /\ ~LatInRange(call.ys[1])) =>
        /\ result = [status |-> "RangeError", out |-> <<>>]
        /\ evals = <<"mask">>

LatitudeOffGlobeFailsWitness ==
    /\ call.op = "contains"
    /\ call.ys[1] = -95
    /\ classifier.shapes # {}
    /\ result.status = "RangeError"

\* C5: contains_many on arrays of different lengths fails with a shape
\* mismatch and produces no output array.
ShapeMismatchRaised ==
    (call.op = "contains_many" /\ Len(call.xs) # Len(call.ys)) =>
        result = [status |-> "ShapeMismatch", out |-> <<>>]

\* C6: on equal-length arrays with every latitude in range, contains_many
\* returns an array of the inputs' length whose i-th element is
\* contains(xs[i], ys[i]).
BatchMatchesSingle ==
    ( /\ call.op = "contains_many"
      /\ Len(call.xs) = Len(call.ys)
      /\ \A i \in 1..Len(call.ys) : LatInRange(call.ys[i]) ) =>
        /\ result.status = "ok"
        /\ Len(result.out) = Len(call.xs)
        /\ \A i \in 1..Len(call.xs) :
               <<result.out[i]>> =
                   Returned(RoaringLandmask_contains(
                       classifier, call.xs[i], call.ys[i])).out

BatchMatchesSingleWitness ==
    /\ call.op = "contains_many"
    /\ Len(call.xs) = 2
    /\ Len(call.ys) = 2
    /\ result = [status |-> "ok", out |-> <<TRUE, FALSE>>]

\* C7: for all inputs, contains_many_par returns what contains_many returns,
\* and no output slot is written more than once while the workers run.
ParEqualsSerial ==
    /\ par.active => \A i \in 1..Len(par.xs) : par.writes[i] <= 1
    /\ (call.op = "contains_many_par" /\ ~par.active) =>
           result = contains_many(classifier, call.xs, call.ys)

\* C8: new() returns a classifier holding both components or a data error and
\* no classifier; a failed bitmap load returns before the shoreline store is
\* loaded; no query runs on a classifier missing a component.
NewAllOrNothing ==
    /\ classifier.built => (classifier.hasMask /\ classifier.hasShapes)
    /\ ~classifier.built => classifier = NoClassifier
    /\ call.op \in Queries =>
           (classifier.built /\ classifier.hasMask /\ classifier.hasShapes)
    /\ call.op = "new" =>
           /\ result.status \in {"ok", "DataError"}
           /\ result.status = "ok" <=> classifier.built
           /\ result.status = "ok" <=> (dataset.maskValid /\ dataset.shapesValid)
           /\ ~dataset.maskValid => loads = <<"RoaringMask::new">>
           /\ dataset.maskValid => loads = <<"RoaringMask::new", "Gshhg::new">>

NewAllOrNothingWitness ==
    /\ call.op = "new"
    /\ ~dataset.maskValid
    /\ dataset.shapesValid
    /\ result.status = "DataError"
    /\ loads = <<"RoaringMask::new">>
    /\ classifier = NoClassifier

\* C9: contains evaluates the bitmap index first and the vector store only
\* when the bitmap index returned true; on false it returns false at once.
ShortCircuitOrder ==
    call.op = "contains" =>
        LET m == RoaringMask_contains(classifier.mask, call.xs[1], call.ys[1])
        IN  /\ evals # <<>>
            /\ evals[1] = "mask"
            /\ (m.ok /\ m.val) <=> evals = <<"mask", "shapes">>
            /\ (m.ok /\ ~m.val) =>
                   (evals = <<"mask">> /\ result = [status |-> "ok",
                                                    out |-> <<FALSE>>])

ShortCircuitOrderWitness ==
    /\ call.op = "contains"
    /\ classifier.shapes # {}
    /\ evals = <<"mask">>
    /\ result = [status |-> "ok", out |-> <<FALSE>>]

\* C10: a batch query whose ys holds a latitude with |lat| > 90, at whatever
\* position, fails as a whole and returns no array.
BatchAllOrNothing ==
    ( /\ call.op \in {"contains_many", "contains_many_par"}
      /\ ~par.active
      /\ \E i \in 1..Len(call.ys) : ~LatInRange(call.ys[i]) ) =>
        /\ result.status \in {"RangeError", "ShapeMismatch"}
        /\ result.out = <<>>

====
